---- MODULE Spec2Model ----
(***************************************************************************)
(* Model of gemini_deep_research.py: the Streamlit script that lists the   *)
(* models of a google-genai client (list_models, list_models_debug) and    *)
(* runs one generation call per research request (run_gemini).             *)
(*                                                                         *)
(* The script is re-executed top to bottom on every user interaction; pc   *)
(* is the position inside one execution.  The SDK and the remote API are   *)
(* the environment: every SDK call picks its outcome nondeterministically. *)
(***************************************************************************)
EXTENDS Integers, Sequences, FiniteSets, TLC

VARIABLES
    api_key,            \* line 24: sidebar text input
    topic,              \* line 186: topic text input
    pressed,            \* line 257: value returned by st.button
    pc,                 \* position in the script
    has,                \* call shapes the client object exposes (hasattr)
    lmCaller,           \* who called list_models: "main" (line 112) or "debug" (line 161)
    lmClient,           \* list_models: outcome of genai.Client (line 34)
    lmIdx,              \* list_models: index into try_calls of the next iteration
    resp,               \* list_models: local resp (line 39)
    errors,             \* list_models: local errors (line 40)
    lmCalls,            \* list_models: call shapes actually invoked, with outcome
    lmRet,              \* list_models: returned list
    notice,             \* list_models: what it wrote to the sidebar
    available_models,   \* line 109/112
    model_choice,       \* line 120/122
    dbgClient,          \* list_models_debug: outcome of genai.Client (line 130)
    dbgIdx,             \* list_models_debug: index into its try_calls
    attempts,           \* list_models_debug: local attempts (line 134)
    dbgCalls,           \* list_models_debug: call shapes actually invoked, with outcome
    debug,              \* line 169: value returned by list_models_debug
    rgArgs,             \* arguments run_gemini was invoked with (line 267)
    rgClient,           \* run_gemini: outcome of genai.Client (line 193)
    genCalls,           \* generate_content calls issued for the current request
    genResult,          \* what generate_content returned or raised
    page                \* what the Start Research handler put on the page

vars == <<api_key, topic, pressed, pc, has, lmCaller, lmClient, lmIdx, resp, errors,
          lmCalls, lmRet, notice, available_models, model_choice, dbgClient, dbgIdx,
          attempts, dbgCalls, debug, rgArgs, rgClient, genCalls, genResult, page>>

lmFrame == <<lmClient, lmIdx, resp, errors, lmCalls, lmRet, notice>>
dbgFrame == <<dbgClient, dbgIdx, attempts, dbgCalls, debug>>
rgFrame == <<rgArgs, rgClient, genCalls, genResult, page>>

----------------------------------------------------------------------------
(* Bounds *)

MaxEntries == 2        \* entries held by one directory response
MaxMsgTokens == 2      \* tokens of one exception message

----------------------------------------------------------------------------
(* Values *)

None == "<None>"       \* Python None; also a missing key or attribute

\* Python truthiness of a str-or-None value
Truthy(v) == v \notin {None, ""}

\* x or y
Or(x, y) == IF Truthy(x) THEN x ELSE y

\* Model identifiers, listed in str order ("(" sorts before "m").
ModelIds == <<"(tuned)", "models/gemini-pro">>

IdSet == {ModelIds[i] : i \in DOMAIN ModelIds}

Rank(s) == CHOOSE i \in DOMAIN ModelIds : ModelIds[i] = s

\* line 122: the only option of the selectbox when no model is listed
Placeholder == "(enter API key to load models)"

\* str.startswith("(") on the strings of the model
startswith_paren(s) == s \in {Placeholder, "(tuned)"}

SeqsUpTo(S, n) == UNION {[1..k -> S] : k \in 0..n}

Range(s) == {s[i] : i \in DOMAIN s}

----------------------------------------------------------------------------
(* Directory entries and responses *)

\* One entry of a directory response: a dict (form "dict": name/id are keys)
\* or a model object (form "obj": name/id are attributes).
Entries == [form : {"dict", "obj"}, name : {None} \cup IdSet, id : {None, ModelIds[1]}]

EntrySeqs == SeqsUpTo(Entries, MaxEntries)

\* A directory response.  kind "dict": models/model/data are its keys (a
\* missing key and an empty list are both falsy, <<>>).  kind "list": items
\* are its elements.  kind "object": items are what iterating it yields,
\* raises says whether the iteration then raises (a non-iterable object
\* yields nothing and raises), models/data/model are its attributes.
Response(k, its, r, ms, m, d) ==
    [kind |-> k, items |-> its, raises |-> r, models |-> ms, model |-> m, data |-> d]

NoResp == Response("None", <<>>, FALSE, <<>>, <<>>, <<>>)

Fields == {"models", "model", "data"}

DictResp(f, es) ==
    Response("dict", <<>>, FALSE,
             IF f = "models" THEN es ELSE <<>>,
             IF f = "model" THEN es ELSE <<>>,
             IF f = "data" THEN es ELSE <<>>)

ListResp(es) == Response("list", es, FALSE, <<>>, <<>>, <<>>)

PagerResp(es) == Response("object", es, FALSE, <<>>, <<>>, <<>>)

AttrResp(f, es) ==
    Response("object", <<>>, TRUE,
             IF f = "models" THEN es ELSE <<>>,
             IF f = "model" THEN es ELSE <<>>,
             IF f = "data" THEN es ELSE <<>>)

\* An iterable that raises after yielding es and has none of the attributes.
BrokenPagerResp(es) == Response("object", es, TRUE, <<>>, <<>>, <<>>)

\* The supported shapes holding the entries es.
ShapesHolding(es) ==
    {DictResp(f, es) : f \in Fields} \cup {ListResp(es), PagerResp(es)}
        \cup {AttrResp(f, es) : f \in Fields}

Responses == UNION {ShapesHolding(es) \cup {BrokenPagerResp(es)} : es \in EntrySeqs}

\* The listings the remote directory serves in the whole-script specification.
SessionListings ==
    { <<>>,
      <<[form |-> "obj", name |-> "models/gemini-pro", id |-> None]>>,
      <<[form |-> "dict", name |-> "models/gemini-pro", id |-> None],
        [form |-> "obj", name |-> "(tuned)", id |-> "(tuned)"]>> }

SessionResponses ==
    UNION {{DictResp("models", es), ListResp(es), PagerResp(es)} : es \in SessionListings}

----------------------------------------------------------------------------
(* list_models: normalisation, lines 64-105 *)

\* lines 71, 87-91: name or id, for a dict and for an object alike
name_or_id(m) == Or(m.name, m.id)

\* lines 78, 98: a dict is asked for "name" only, an object for name or id
name_only_for_dict(m) == IF m.form = "dict" THEN m.name ELSE Or(m.name, m.id)

\* the loops of lines 70-73, 77-80, 85-93, 97-100: append every truthy name
RECURSIVE AppendNames(_, _, _)
AppendNames(models, es, dictAware) ==
    IF es = <<>> THEN models
    ELSE LET m == Head(es)
             name == IF dictAware THEN name_or_id(m) ELSE name_only_for_dict(m)
         IN AppendNames(IF Truthy(name) THEN Append(models, name) ELSE models,
                        Tail(es), dictAware)

\* a or b or c or [] on lists
OrList(a, b, c) == IF a # <<>> THEN a ELSE IF b # <<>> THEN b ELSE c

\* lines 65-100: the local models after the branch for resp's type has run
CollectModels(r) ==
    CASE r.kind = "dict" ->
            AppendNames(<<>>, OrList(r.models, r.model, r.data), TRUE)
      [] r.kind = "list" ->
            AppendNames(<<>>, r.items, FALSE)
      [] OTHER ->
            LET iterated == AppendNames(<<>>, r.items, TRUE)
            IN IF r.raises
               THEN AppendNames(iterated, OrList(r.models, r.data, r.model), FALSE)
               ELSE iterated

\* sorted(set(models)), line 105
RECURSIVE SortedSet(_)
SortedSet(S) ==
    IF S = {} THEN <<>>
    ELSE LET least == CHOOSE x \in S : \A y \in S : Rank(x) <= Rank(y)
         IN <<least>> \o SortedSet(S \ {least})

sorted_set(models) == SortedSet(Range(models))

----------------------------------------------------------------------------
(* The client's call shapes *)

\* lines 43-47
try_calls == <<"client.models.list()", "client.list_models()", "client.list()">>

\* lines 136-141
debug_try_calls == <<"client.list_models()", "client.list()", "client.models.list()",
                     "client.models.list_models()">>

Shapes == Range(try_calls) \cup Range(debug_try_calls)

\* What invoking a call shape does: raise, or return a value (NoResp is None).
Raised == [res |-> "raise", value |-> NoResp]

Returned(v) == [res |-> "return", value |-> v]

SdkOutcomes(S) == {Raised, Returned(NoResp)} \cup {Returned(r) : r \in S}

\* A faulty variant of fn: a lambda without its hasattr guard raises AttributeError
\* on a shape the client does not expose.
fn_unguarded(name, sdk) == IF name \in has THEN sdk ELSE Raised

\* lines 44-46, 137-140: lambda c: c.X() if hasattr(c, "X") else None
fn(name, sdk) == IF name \in has THEN sdk ELSE Returned(NoResp)

\* str(e) of the exception a call shape raises
ExcText == "listing failed"

----------------------------------------------------------------------------
(* list_models, lines 27-105 *)

\* A faulty variant of after_client_init: the except branch of line 35 without its return.
after_client_init_no_return(ok) == "lm_try"

\* lines 33-37: a failed construction returns at once
after_client_init(ok) == IF ok THEN "lm_try" ELSE "lm_return"

\* A faulty variant of next_index: the loop of line 49 without the break of line 54.
next_index_no_break(candidate, i) == i + 1

\* lines 52-54: a non-None candidate ends the loop
next_index(candidate, i) == IF candidate # NoResp THEN Len(try_calls) + 1 ELSE i + 1

\* A faulty variant of list_models_result: a default model is guessed when no shape answered.
list_models_result_guess(r) ==
    IF r = NoResp THEN <<"models/gemini-pro">> ELSE sorted_set(CollectModels(r))

\* lines 58-105: the value list_models returns once the loop has ended
list_models_result(r) == IF r = NoResp THEN <<>> ELSE sorted_set(CollectModels(r))

\* lines 59, 103: what list_models writes to the sidebar once the loop has ended
list_models_notice(r) ==
    IF r = NoResp THEN "Could not list models"
    ELSE IF CollectModels(r) = <<>> THEN "No models returned" ELSE None

DebugValue(k, as, ms) == [kind |-> k, attempts |-> as, models |-> ms]

NoDebug == DebugValue("none", <<>>, <<>>)

\* The locals of a list_models call are gone once its caller has moved on.
ClearListFrame ==
    /\ lmClient' = "none"
    /\ lmIdx' = 1
    /\ resp' = NoResp
    /\ errors' = <<>>
    /\ lmCalls' = <<>>
    /\ lmRet' = <<>>
    /\ notice' = None

\* return of list_models to its caller: line 112 or lines 161-162
ReturnListModels(value) ==
    /\ lmRet' = value
    /\ IF lmCaller = "main"
       THEN /\ available_models' = value
            /\ pc' = "select"
            /\ UNCHANGED debug
       ELSE /\ debug' = DebugValue("attempts", attempts, value)
            /\ pc' = "dbg_show"
            /\ UNCHANGED available_models

\* lines 33-40
LM_Init ==
    /\ pc = "lm_init"
    /\ \E ok \in BOOLEAN :
         /\ lmClient' = IF ok THEN "ok" ELSE "failed"
         /\ notice' = IF ok THEN None ELSE "Client init error"
         /\ IF after_client_init(ok) = "lm_try"
            THEN /\ pc' = "lm_try"
                 /\ UNCHANGED <<lmRet, available_models, debug>>
            ELSE ReturnListModels(<<>>)
    /\ resp' = NoResp
    /\ errors' = <<>>
    /\ lmIdx' = 1
    /\ UNCHANGED <<api_key, topic, pressed, has, lmCaller, lmCalls, model_choice,
                   dbgClient, dbgIdx, attempts, dbgCalls, rgFrame>>

\* lines 49-56: one iteration of the loop over try_calls; S is the set of
\* responses the remote directory can serve
LM_TryCall(S) ==
    /\ pc = "lm_try"
    /\ lmIdx <= Len(try_calls)
    /\ LET name == try_calls[lmIdx] IN
       \E sdk \in (IF name \in has THEN SdkOutcomes(S) ELSE {Returned(NoResp)}) :
         LET got == fn(name, sdk) IN
           /\ lmCalls' = IF name \in has
                         THEN Append(lmCalls, [name |-> name, res |-> sdk.res,
                                               value |-> sdk.value])
                         ELSE lmCalls
           /\ IF got.res = "raise"
              THEN /\ errors' = Append(errors, [name |-> name, error |-> ExcText])
                   /\ lmIdx' = lmIdx + 1
                   /\ UNCHANGED resp
              ELSE /\ resp' = IF got.value # NoResp THEN got.value ELSE resp
                   /\ lmIdx' = next_index(got.value, lmIdx)
                   /\ UNCHANGED errors
    /\ UNCHANGED <<api_key, topic, pressed, pc, has, lmCaller, lmClient, lmRet, notice,
                   available_models, model_choice, dbgFrame, rgFrame>>

\* lines 58-105
LM_Finish ==
    /\ pc = "lm_try"
    /\ lmIdx > Len(try_calls)
    /\ notice' = list_models_notice(resp)
    /\ ReturnListModels(list_models_result(resp))
    /\ UNCHANGED <<api_key, topic, pressed, has, lmCaller, lmClient, lmIdx, resp, errors,
                   lmCalls, model_choice, dbgClient, dbgIdx, attempts, dbgCalls, rgFrame>>

----------------------------------------------------------------------------
(* list_models_debug, lines 127-162, and the debug expander, lines 165-183 *)

\* lines 147-155: the "type" of the summary of a candidate (a repr() that
\* raises only changes the summary, never ok)
summary_type(candidate) ==
    CASE candidate.kind = "list" -> "list"
      [] candidate.kind = "dict" -> "dict"
      [] candidate.kind = "None" -> "NoneType"
      [] OTHER -> "object"

\* line 157
OkAttempt(name, candidate) ==
    [name |-> name, ok |-> TRUE, summary |-> summary_type(candidate), error |-> None]

\* line 159
FailedAttempt(name) ==
    [name |-> name, ok |-> FALSE, summary |-> None, error |-> ExcText]

\* A faulty variant of debug_next_index: the diagnostic loop stops at the first
\* shape that answers, as the loop of list_models does.
debug_next_index_first_wins(candidate, i) ==
    IF candidate # NoResp THEN Len(debug_try_calls) + 1 ELSE i + 1

\* line 143: the loop of list_models_debug has no break
debug_next_index(candidate, i) == i + 1

\* lines 165-169
DebugPanel ==
    /\ pc = "debug"
    /\ pc' = IF api_key = "" THEN "topic" ELSE "dbg_init"
    /\ UNCHANGED <<api_key, topic, pressed, has, lmCaller, lmFrame, available_models,
                   model_choice, dbgFrame, rgFrame>>

\* lines 129-134
Dbg_Init ==
    /\ pc = "dbg_init"
    /\ \E ok \in BOOLEAN :
         /\ dbgClient' = IF ok THEN "ok" ELSE "failed"
         /\ debug' = IF ok THEN NoDebug ELSE DebugValue("error", <<>>, <<>>)
         /\ pc' = IF ok THEN "dbg_try" ELSE "dbg_show"
    /\ attempts' = <<>>
    /\ dbgIdx' = 1
    /\ UNCHANGED <<api_key, topic, pressed, has, lmCaller, lmFrame, available_models,
                   model_choice, dbgCalls, rgFrame>>

\* lines 143-159: one iteration of the loop over the diagnostic try_calls
Dbg_TryCall(S) ==
    /\ pc = "dbg_try"
    /\ dbgIdx <= Len(debug_try_calls)
    /\ LET name == debug_try_calls[dbgIdx] IN
       \E sdk \in (IF name \in has THEN SdkOutcomes(S) ELSE {Returned(NoResp)}) :
         LET got == fn(name, sdk) IN
           /\ dbgCalls' = IF name \in has
                          THEN Append(dbgCalls, [name |-> name, res |-> sdk.res,
                                                 none |-> sdk.value = NoResp])
                          ELSE dbgCalls
           /\ attempts' = Append(attempts, IF got.res = "raise" THEN FailedAttempt(name)
                                           ELSE OkAttempt(name, got.value))
           /\ dbgIdx' = IF got.res = "raise" THEN dbgIdx + 1
                        ELSE debug_next_index(got.value, dbgIdx)
    /\ UNCHANGED <<api_key, topic, pressed, pc, has, lmCaller, lmFrame, available_models,
                   model_choice, dbgClient, debug, rgFrame>>

\* line 161: models = list_models(api_key)
Dbg_CallListModels ==
    /\ pc = "dbg_try"
    /\ dbgIdx > Len(debug_try_calls)
    /\ lmCaller' = "debug"
    /\ pc' = "lm_init"
    /\ ClearListFrame
    /\ UNCHANGED <<api_key, topic, pressed, has, available_models, model_choice,
                   dbgFrame, rgFrame>>

\* lines 170-183: the expander shows the error or the attempts and the models
Dbg_Show ==
    /\ pc = "dbg_show"
    /\ pc' = "topic"
    /\ ClearListFrame
    /\ dbgClient' = "none"
    /\ dbgIdx' = 1
    /\ attempts' = <<>>
    /\ dbgCalls' = <<>>
    /\ debug' = NoDebug
    /\ UNCHANGED <<api_key, topic, pressed, has, lmCaller, available_models,
                   model_choice, rgFrame>>

----------------------------------------------------------------------------
(* run_gemini, lines 192-237 *)

GenResponses ==
    [kind : {"obj", "dict"}, text : {None, "", "report"}, content : {None, "", "draft"}]

NoGenResponse == [kind |-> "none", text |-> None, content |-> None]

\* getattr(response, attr, None): the keys of a dict are not attributes
getattr_text(r) == IF r.kind = "obj" THEN r.text ELSE None

getattr_content(r) == IF r.kind = "obj" THEN r.content ELSE None

\* str(response)
str_of(r) == IF r.kind = "dict" THEN "{...}" ELSE "<response object>"

\* line 220
extract_text(r) == Or(Or(getattr_text(r), getattr_content(r)), str_of(r))

\* The words an exception message is made of, and str.lower() on each.
MsgTokens == {"Not Found", "not found", "not supported for generateContent",
              "RESOURCE_EXHAUSTED", "Quota", "429", "timed out"}

lower_token(t) ==
    CASE t = "Not Found" -> "not found"
      [] t = "not supported for generateContent" -> "not supported for generatecontent"
      [] t = "RESOURCE_EXHAUSTED" -> "resource_exhausted"
      [] t = "Quota" -> "quota"
      [] OTHER -> t

Messages == SeqsUpTo(MsgTokens, MaxMsgTokens)

\* msg.lower()
lower(msg) == [i \in DOMAIN msg |-> lower_token(msg[i])]

\* sub in msg
Contains(msg, sub) == \E i \in DOMAIN msg : msg[i] = sub

\* A faulty variant of classify: the "429" test of line 230 is left out.
classify_without_429(msg) ==
    IF Contains(lower(msg), "not found")
          \/ Contains(lower(msg), "not supported for generatecontent")
    THEN "unsupported"
    ELSE IF Contains(lower(msg), "resource_exhausted") \/ Contains(lower(msg), "quota")
    THEN "quota"
    ELSE "failed"

\* lines 224-237: which RuntimeError the except branch raises
classify(msg) ==
    IF Contains(lower(msg), "not found")
          \/ Contains(lower(msg), "not supported for generatecontent")
    THEN "unsupported"
    ELSE IF Contains(lower(msg), "resource_exhausted") \/ Contains(lower(msg), "quota")
               \/ Contains(msg, "429")
    THEN "quota"
    ELSE "failed"

GenOutcomes ==
    {[res |-> "return", response |-> r, msg |-> <<>>] : r \in GenResponses}
        \cup {[res |-> "raise", response |-> NoGenResponse, msg |-> m] : m \in Messages}

NoGenResult == [res |-> "none", response |-> NoGenResponse, msg |-> <<>>]

Page(k, out, cat, det) == [kind |-> k, output |-> out, category |-> cat, detail |-> det]

NoPage == Page("none", None, None, <<>>)

\* A faulty variant of after_raise: a quota error is retried once.
after_raise_retry(category, n) == IF category = "quota" /\ n < 2 THEN "rg_call" ELSE "footer"

\* lines 222-237, 290-291: the RuntimeError leaves run_gemini and the handler
\* reports it; nothing calls generate_content again
after_raise(category, n) == "footer"

\* A faulty variant of start_guard: the placeholder test of line 262 is left out.
start_guard_no_placeholder(k, t, m) ==
    IF k = "" THEN "warn_key"
    ELSE IF t = "" THEN "warn_topic"
    ELSE IF m = "" THEN "warn_model"
    ELSE "run"

\* lines 258-264
start_guard(k, t, m) ==
    IF k = "" THEN "warn_key"
    ELSE IF t = "" THEN "warn_topic"
    ELSE IF m = "" \/ startswith_paren(m) THEN "warn_model"
    ELSE "run"

NoArgs == [api_key |-> None, topic |-> None, model_name |-> None]

\* line 193; the exception of a failed construction is caught at line 290
RG_Init ==
    /\ pc = "rg_init"
    /\ \E ok \in BOOLEAN :
         /\ rgClient' = IF ok THEN "ok" ELSE "failed"
         /\ pc' = IF ok THEN "rg_call" ELSE "footer"
         /\ page' = IF ok THEN page ELSE Page("error", None, "client", <<>>)
    /\ UNCHANGED <<api_key, topic, pressed, has, lmCaller, lmFrame, available_models,
                   model_choice, dbgFrame, rgArgs, genCalls, genResult>>

\* lines 214-237 and the handler's lines 269-291
RG_Generate ==
    /\ pc = "rg_call"
    /\ genCalls' = genCalls + 1
    /\ \E g \in GenOutcomes :
         /\ genResult' = g
         /\ IF g.res = "return"
            THEN /\ page' = Page("output", extract_text(g.response), None, <<>>)
                 /\ pc' = "footer"
            ELSE /\ page' = Page("error", None, classify(g.msg),
                                 IF classify(g.msg) = "failed" THEN g.msg ELSE <<>>)
                 /\ pc' = after_raise(classify(g.msg), genCalls')
    /\ UNCHANGED <<api_key, topic, pressed, has, lmCaller, lmFrame, available_models,
                   model_choice, dbgFrame, rgArgs, rgClient>>

----------------------------------------------------------------------------
(* The script, top to bottom *)

Keys == {"", "key"}

Topics == {"", "AI in healthcare"}

\* line 24: a script run starts with the sidebar's key
EnterKey ==
    /\ pc = "start"
    /\ api_key' \in Keys
    /\ pc' = "load"
    /\ topic' = ""
    /\ pressed' = FALSE
    /\ lmCaller' = "main"
    /\ lmClient' = "none"
    /\ lmIdx' = 1
    /\ resp' = NoResp
    /\ errors' = <<>>
    /\ lmCalls' = <<>>
    /\ lmRet' = <<>>
    /\ notice' = None
    /\ available_models' = <<>>
    /\ model_choice' = Placeholder
    /\ dbgClient' = "none"
    /\ dbgIdx' = 1
    /\ attempts' = <<>>
    /\ dbgCalls' = <<>>
    /\ debug' = NoDebug
    /\ rgArgs' = NoArgs
    /\ rgClient' = "none"
    /\ genCalls' = 0
    /\ genResult' = NoGenResult
    /\ page' = NoPage
    /\ UNCHANGED has

\* lines 108-112
LoadModels ==
    /\ pc = "load"
    /\ pc' = IF api_key # "" THEN "lm_init" ELSE "select"
    /\ UNCHANGED <<api_key, topic, pressed, has, lmCaller, lmFrame, available_models,
                   model_choice, dbgFrame, rgFrame>>

\* lines 114-122: the selectbox returns one of its options; the index of
\* lines 116-119 only sets which option is preselected
SelectModel ==
    /\ pc = "select"
    /\ IF available_models # <<>>
       THEN model_choice' \in Range(available_models)
       ELSE model_choice' = Placeholder
    /\ pc' = "debug"
    /\ ClearListFrame
    /\ UNCHANGED <<api_key, topic, pressed, has, lmCaller, available_models,
                   dbgFrame, rgFrame>>

\* lines 186-189
EnterTopic ==
    /\ pc = "topic"
    /\ topic' \in Topics
    /\ pc' = "button"
    /\ UNCHANGED <<api_key, pressed, has, lmCaller, lmFrame, available_models,
                   model_choice, dbgFrame, rgFrame>>

\* lines 257-267
StartResearch ==
    /\ pc = "button"
    /\ \E p \in BOOLEAN :
         /\ pressed' = p
         /\ IF ~p
            THEN /\ pc' = "footer"
                 /\ UNCHANGED <<rgArgs, page>>
            ELSE LET g == start_guard(api_key, topic, model_choice) IN
                 IF g = "run"
                 THEN /\ rgArgs' = [api_key |-> api_key, topic |-> topic,
                                    model_name |-> model_choice]
                      /\ pc' = "rg_init"
                      /\ UNCHANGED page
                 ELSE /\ page' = Page(g, None, None, <<>>)
                      /\ pc' = "footer"
                      /\ UNCHANGED rgArgs
    /\ UNCHANGED <<api_key, topic, has, lmCaller, lmFrame, available_models,
                   model_choice, dbgFrame, rgClient, genCalls, genResult>>

\* lines 293-295: the run ends; the next interaction runs the script again
Footer ==
    /\ pc = "footer"
    /\ pc' = "start"
    /\ UNCHANGED <<api_key, topic, pressed, has, lmCaller, lmFrame, available_models,
                   model_choice, dbgFrame, rgFrame>>

----------------------------------------------------------------------------
(* Specifications *)

Blank ==
    /\ topic = ""
    /\ pressed = FALSE
    /\ lmCaller = "main"
    /\ lmClient = "none"
    /\ lmIdx = 1
    /\ resp = NoResp
    /\ errors = <<>>
    /\ lmCalls = <<>>
    /\ lmRet = <<>>
    /\ notice = None
    /\ available_models = <<>>
    /\ model_choice = Placeholder
    /\ dbgClient = "none"
    /\ dbgIdx = 1
    /\ attempts = <<>>
    /\ dbgCalls = <<>>
    /\ debug = NoDebug
    /\ rgArgs = NoArgs
    /\ rgClient = "none"
    /\ genCalls = 0
    /\ genResult = NoGenResult
    /\ page = NoPage

\* The whole script, run again and again.
Init ==
    /\ Blank
    /\ api_key = ""
    /\ pc = "start"
    /\ has \in SUBSET Shapes

Next ==
    \/ EnterKey
    \/ LoadModels
    \/ LM_Init
    \/ LM_TryCall(SessionResponses)
    \/ LM_Finish
    \/ SelectModel
    \/ DebugPanel
    \/ Dbg_Init
    \/ Dbg_TryCall(SessionResponses)
    \/ Dbg_CallListModels
    \/ Dbg_Show
    \/ EnterTopic
    \/ StartResearch
    \/ RG_Init
    \/ RG_Generate
    \/ Footer

Spec == Init /\ [][Next]_vars

\* list_models alone, called once with a key, over every response shape.
InitList ==
    /\ Blank
    /\ api_key = "key"
    /\ pc = "lm_init"
    /\ has \in SUBSET Range(try_calls)

ListModelsStep == LM_TryCall(Responses)

NextList ==
    \/ LM_Init
    \/ ListModelsStep
    \/ LM_Finish

SpecList == InitList /\ [][NextList]_vars

----------------------------------------------------------------------------
(* Properties *)

\* list_models has returned and its locals are still in view
ListReturned == pc \in {"select", "dbg_show"} /\ lmClient # "none"

Names(calls) == [i \in DOMAIN calls |-> calls[i].name]

Exposed(name) == name \in has

Answered(call) == call.res = "return" /\ call.value # NoResp

IsPrefix(s, t) == Len(s) <= Len(t) /\ \A i \in DOMAIN s : s[i] = t[i]

\* every name or id carried by an entry of the response r
EntryIds(r) ==
    LET held == Range(r.items) \cup Range(r.models) \cup Range(r.model) \cup Range(r.data)
    IN ({m.name : m \in held} \cup {m.id : m \in held}) \ {None}

\* C1: list_models invokes the shapes the client exposes in the order
\* client.models.list(), client.list_models(), client.list(), skipping none;
\* a call that returns a non-None value is the last call of the resolution and
\* its value is the directory response resp.
C1_FirstSuccessWins ==
    /\ IsPrefix(Names(lmCalls), SelectSeq(try_calls, Exposed))
    /\ \A i \in DOMAIN lmCalls :
         Answered(lmCalls[i]) => i = Len(lmCalls) /\ resp = lmCalls[i].value
    /\ resp # NoResp => lmCalls # <<>> /\ Answered(lmCalls[Len(lmCalls)])

\* C1 witness: the second shape answers after the first raised, and the third
\* shape, which the client exposes, is never invoked.
C1_Witness ==
    /\ ListReturned
    /\ Len(lmCalls) = 2
    /\ lmCalls[1].res = "raise"
    /\ Answered(lmCalls[2])
    /\ try_calls[3] \in has

\* C2: when the response is one of the supported shapes holding the entries
\* es, list_models returns what it returns for every other supported shape
\* holding the same es.
C2_ShapesAgree ==
    (ListReturned /\ resp # NoResp) =>
        \A es \in EntrySeqs :
            resp \in ShapesHolding(es) =>
                \A other \in ShapesHolding(es) : list_models_result(other) = lmRet

\* C3: when every shape list_models invoked raised (the others not being
\* exposed), it returns the empty list and errors holds one entry per invoked
\* shape, in call order, and none for a shape that was skipped.
C3_AllFailedIsEmpty ==
    (ListReturned /\ \A i \in DOMAIN lmCalls : lmCalls[i].res = "raise") =>
        /\ lmRet = <<>>
        /\ Names(errors) = Names(lmCalls)
        /\ \A i \in DOMAIN errors : errors[i].name \in has

\* C3 witness: two exposed shapes raised, the third is not exposed.
C3_Witness ==
    /\ ListReturned
    /\ lmClient = "ok"
    /\ Len(lmCalls) = 2
    /\ \A i \in DOMAIN lmCalls : lmCalls[i].res = "raise"
    /\ Cardinality(Range(try_calls) \ has) = 1
    /\ Len(errors) = 2
    /\ lmRet = <<>>

\* C6: every identifier list_models returns is the name or id of an entry of
\* the value a call of this resolution answered with; with no answer the
\* returned list, and the list the selectbox is built from, is empty.
C6_NoFabricatedIdentifier ==
    ListReturned =>
        /\ \A x \in Range(lmRet) :
             \E i \in DOMAIN lmCalls :
                 Answered(lmCalls[i]) /\ x \in EntryIds(lmCalls[i].value)
        /\ (\A i \in DOMAIN lmCalls : ~Answered(lmCalls[i])) => lmRet = <<>>
        /\ lmCaller = "main" => available_models = lmRet

\* C6 witness: two identifiers are returned from a response that answered
\* after an earlier shape raised.
C6_Witness ==
    /\ ListReturned
    /\ Len(lmRet) = 2
    /\ Len(lmCalls) = 2
    /\ lmCalls[1].res = "raise"

\* the message names a missing or unsupported model, in any letter case
MentionsNotFound(msg) ==
    \E i \in DOMAIN msg :
        msg[i] \in {"Not Found", "not found", "not supported for generateContent"}

GenerationRaised == genResult.res = "raise"

\* C4 as stated: every generation exception whose message contains "429"
\* ends in the quota error, also when the message contains "not found".
C4_429IsAlwaysQuota ==
    (GenerationRaised /\ Contains(genResult.msg, "429")) => page.category = "quota"

\* C4 as amended: a generation exception whose message contains "429" never
\* ends in the generic generation-failed error; it ends in the quota error
\* unless the message also names a missing or unsupported model, and then it
\* ends in the model-unsupported error, whose test comes first.
C4_429IsNeverGeneric ==
    (GenerationRaised /\ Contains(genResult.msg, "429")) =>
        /\ page.kind = "error"
        /\ page.category # "failed"
        /\ page.category = (IF MentionsNotFound(genResult.msg) THEN "unsupported" ELSE "quota")

\* C4 witness: "429" next to an unclassified word ends in the quota error.
C4_Witness ==
    /\ GenerationRaised
    /\ genResult.msg = <<"timed out", "429">>
    /\ page.category = "quota"

\* C5: a response that exposes content and no text makes run_gemini return
\* exactly that content, whatever the content and however it is exposed.
C5_ContentOnlyIsReturned ==
    (genResult.res = "return" /\ genResult.response.text = None
        /\ genResult.response.content # None) =>
        page.output = genResult.response.content

Warnings == {"warn_key", "warn_topic", "warn_model"}

RequestOver == pc \in {"footer", "start"}

MayRun ==
    /\ api_key # ""
    /\ topic # ""
    /\ model_choice \in Range(available_models)
    /\ model_choice # Placeholder

\* C8: run_gemini is invoked only with a non-empty key, a non-empty topic and
\* a model that list_models returned and that is not the placeholder; a press
\* in any other state ends in a warning without a generation call.
C8_GuardedInvocation ==
    /\ rgArgs # NoArgs =>
           /\ MayRun
           /\ rgArgs = [api_key |-> api_key, topic |-> topic, model_name |-> model_choice]
    /\ page.kind \in Warnings => rgArgs = NoArgs /\ genCalls = 0
    /\ (pc = "footer" /\ pressed /\ ~MayRun) =>
           page.kind \in Warnings /\ rgArgs = NoArgs /\ genCalls = 0

\* C8 witness: the key and the topic are given but no model could be listed,
\* so the press ends in the model warning.
C8_Witness ==
    /\ pc = "footer"
    /\ pressed
    /\ api_key # ""
    /\ topic # ""
    /\ model_choice = Placeholder
    /\ page.kind = "warn_model"

DebugRaised(name) == \E i \in DOMAIN dbgCalls : dbgCalls[i].name = name /\ dbgCalls[i].res = "raise"

C10_ClientFailureAborts ==
    /\ lmClient = "failed" =>
           /\ lmCalls = <<>> /\ errors = <<>> /\ lmRet = <<>>
           /\ notice = "Client init error"
           /\ pc \in {"select", "dbg_show"}
           /\ lmCaller = "main" => available_models = <<>>
           /\ lmCaller = "debug" => debug = DebugValue("attempts", attempts, <<>>)
    /\ dbgClient = "failed" =>
           /\ dbgCalls = <<>> /\ attempts = <<>>
           /\ debug = DebugValue("error", <<>>, <<>>)
           /\ lmClient = "none"
           /\ pc = "dbg_show"
    /\ rgClient = "failed" =>
           /\ genCalls = 0 /\ genResult = NoGenResult
           /\ page = Page("error", None, "client", <<>>)
           /\ RequestOver
    /\ (lmClient = "failed" \/ dbgClient = "failed" \/ rgClient = "failed") => ENABLED Next

\* C10 witness: the listing worked, a model was chosen, and the client of
\* run_gemini could not be built.
C10_Witness ==
    /\ pc = "footer"
    /\ rgClient = "failed"
    /\ rgArgs # NoArgs
    /\ available_models # <<>>

====
